---- MODULE Spec2Model ----
(***************************************************************************)
(* Model of src/index.py: the decoder of the "representative colour plus   *)
(* difference" image format.  decode_huffman_stream_item is the prefix-code *)
(* scanner; decode_image_data is the four-stage pipeline (codebook          *)
(* expansion, Huffman decoding of (rep id, difference, count) triples,      *)
(* run-length expansion, palette index reconstruction).                     *)
(*                                                                          *)
(* Bit strings are sequences over {0, 1}; Python's 0-based positions are    *)
(* kept, so bit_stream[i] of the source is bit_stream[i + 1] here.          *)
(* Python dictionaries are functions whose DOMAIN is the key set.           *)
(***************************************************************************)
EXTENDS Integers, Sequences, FiniteSets, TLC

VARIABLES
    encoded_string,                \* argument: sequence of characters
    tables,                        \* arguments: codebook, three tables, palette
    image_width,                   \* argument
    image_height,                  \* argument
    src_records,                   \* the run records a hand-built input encodes
    pc,                            \* position in decode_image_data
    bit_stream,                    \* line 44
    current_pos,                   \* line 49
    total_pixels_in_rle_data,      \* line 50
    rle_encoded_data,              \* line 48
    rep_color_id,                  \* line 65
    diff_value,                    \* line 70
    warning,                       \* the print of lines 101-102
    decoded_value_pairs,           \* line 107
    final_pixel_palette_indices,   \* line 119
    error,                         \* the ValueError raised, if any
    result,                        \* the returned list, if any
    scan_table,                    \* scanner harness: table under test
    scan_from,                     \* scanner harness: cursor of the last call
    scan_out                       \* scanner harness: outcome of the last call

vars == <<encoded_string, tables, image_width, image_height, src_records, pc,
          bit_stream, current_pos, total_pixels_in_rle_data, rle_encoded_data,
          rep_color_id, diff_value, warning, decoded_value_pairs,
          final_pixel_palette_indices, error, result,
          scan_table, scan_from, scan_out>>

----------------------------------------------------------------------------
(* Bounds of the model *)

\* longest body of an input string, in characters
MaxStrLen == 3
\* length of the long run of padding characters appended to a body
LongPad == 11
\* longest bit stream handed to the scanner harness
MaxScanBits == 4
\* most run records of a hand-built encoding
MaxRecords == 3

(* Constants of the program *)

\* bit_stream[context_start:current_pos], context_start = max(0, current_pos - 20)
ContextBefore == 20
\* bit_stream[current_pos:context_end], context_end = min(len, current_pos + 40)
ContextAfter == 40
\* remaining_bits[:30]
PreviewLen == 30

----------------------------------------------------------------------------
(* Python primitives *)

Min(S) == CHOOSE x \in S : \A y \in S : x <= y
Max(S) == CHOOSE x \in S : \A y \in S : x >= y

\* s[a:b] for 0 <= a, 0 <= b (Python slice of a string)
Slice(s, a, b) == SubSeq(s, a + 1, Min({b, Len(s)}))

\* a bug: the remainder of a division that truncates toward zero (sign of a)
PyModTruncated(a, b) ==
    IF a >= 0 THEN a % (IF b > 0 THEN b ELSE -b)
    ELSE -((-a) % (IF b > 0 THEN b ELSE -b))

\* a % b with Python's sign rule: the result has the sign of b (floor division)
PyMod(a, b) ==
    IF b > 0 THEN a % b
    ELSE -((-a) % (-b))

\* l[i] for -len(l) <= i < len(l): a negative index counts from the end
PyIndex(l, i) == IF i >= 0 THEN l[i + 1] ELSE l[Len(l) + i + 1]

\* [x] * n
RECURSIVE Repeat(_, _)
Repeat(x, n) == IF n <= 0 THEN <<>> ELSE <<x>> \o Repeat(x, n - 1)

NoError == [kind |-> "none"]
NoValue == [kind |-> "none"]

----------------------------------------------------------------------------
(* decode_huffman_stream_item, lines 1-21 *)

\* a bug: the longest key at the cursor, not the first one met
HuffmanLoopLongest(stream, table, i, prefix) ==
    LET lens == {n \in 1..(Len(stream) - i) :
                    SubSeq(stream, i + 1, i + n) \in DOMAIN table} IN
    IF lens = {}
    THEN [ok |-> FALSE, prefix |-> SubSeq(stream, i + 1, Len(stream))]
    ELSE [ok |-> TRUE,
          value |-> table[SubSeq(stream, i + 1, i + Max(lens))],
          pos |-> i + Max(lens)]

\* a bug: the candidate is looked up before it is extended, so that an empty
\* key matches without a bit being consumed
RECURSIVE HuffmanLoopTestFirst(_, _, _, _)
HuffmanLoopTestFirst(stream, table, i, prefix) ==
    IF prefix \in DOMAIN table
    THEN [ok |-> TRUE, value |-> table[prefix], pos |-> i]
    ELSE IF i >= Len(stream)
    THEN [ok |-> FALSE, prefix |-> prefix]
    ELSE HuffmanLoopTestFirst(stream, table, i + 1, Append(prefix, stream[i + 1]))

\* the for loop of lines 9-12: i is the loop index, prefix the bits taken so far
RECURSIVE HuffmanLoop(_, _, _, _)
HuffmanLoop(stream, table, i, prefix) ==
    IF i >= Len(stream)
    THEN [ok |-> FALSE, prefix |-> prefix]
    ELSE LET p == Append(prefix, stream[i + 1]) IN
         IF p \in DOMAIN table
         THEN [ok |-> TRUE, value |-> table[p], pos |-> i + 1]
         ELSE HuffmanLoop(stream, table, i + 1, p)

\* lines 15-21: the ValueError with its context window
HuffmanError(stream, pos, prefix, item_name) ==
    [kind     |-> "HuffmanDecodeError",
     item     |-> item_name,
     position |-> pos,
     prefix   |-> prefix,
     before   |-> Slice(stream, Max({0, pos - ContextBefore}), pos),
     after    |-> Slice(stream, pos, Min({Len(stream), pos + ContextAfter}))]

decode_huffman_stream_item(stream, pos, table, item_name) ==
    LET r == HuffmanLoop(stream, table, pos, <<>>) IN
    IF r.ok
    THEN [ok |-> TRUE, value |-> r.value, pos |-> r.pos, error |-> NoError]
    ELSE [ok |-> FALSE, value |-> 0, pos |-> pos,
          error |-> HuffmanError(stream, pos, r.prefix, item_name)]

----------------------------------------------------------------------------
(* The caller's data: the tables of the demonstration harness, lines 141-157, *)
(* and variations of them                                                     *)

char_to_bits_map_example ==
    ("A" :> <<0,0,0>>) @@ ("B" :> <<0,0,1>>) @@ ("C" :> <<0,1,0>>) @@
    ("D" :> <<0,1,1>>) @@ ("E" :> <<1,0,0>>) @@ ("F" :> <<1,0,1>>) @@
    ("G" :> <<1,1,0>>) @@ ("H" :> <<1,1,1>>)

rep_color_huffman_rev_table_example == (<<0>> :> 0) @@ (<<1>> :> 1)

diff_value_huffman_rev_table_example ==
    (<<0,0>> :> 0) @@ (<<0,1>> :> 1) @@ (<<1,0>> :> -1)

count_huffman_rev_table_example == (<<0>> :> 1) @@ (<<1>> :> 2)

representative_palette_indices_example == <<10, 100>>

ExampleTables ==
    [char_to_bits_map               |-> char_to_bits_map_example,
     rep_color_huffman_rev_table    |-> rep_color_huffman_rev_table_example,
     diff_value_huffman_rev_table   |-> diff_value_huffman_rev_table_example,
     count_huffman_rev_table        |-> count_huffman_rev_table_example,
     representative_palette_indices |-> representative_palette_indices_example,
     palette_size                   |-> 256]

\* the example tables with a palette size of zero, and with a negative one
ZeroPaletteTables == [ExampleTables EXCEPT !.palette_size = 0]
NegativePaletteTables == [ExampleTables EXCEPT !.palette_size = -7]

\* tables a caller may also pass: representative ids outside the table (-1, 2),
\* a difference table that is not prefix-free, a count table with an empty key,
\* a zero and a negative count; base 10 with difference -15 and 16 colours
HostileTables ==
    [char_to_bits_map               |-> char_to_bits_map_example,
     rep_color_huffman_rev_table    |->
         (<<0>> :> 0) @@ (<<1,0>> :> -1) @@ (<<1,1>> :> 2),
     diff_value_huffman_rev_table   |->
         (<<0>> :> -15) @@ (<<1>> :> 0) @@ (<<1,1>> :> 3),
     count_huffman_rev_table        |->
         (<<>> :> 7) @@ (<<0>> :> 1) @@ (<<1,0>> :> 0) @@
         (<<1,1,0>> :> 3) @@ (<<1,1,1>> :> -2),
     representative_palette_indices |-> <<10>>,
     palette_size                   |-> 16]

\* prefix-free tables whose count table has the empty string as its only key
EmptyCodeTables ==
    [char_to_bits_map               |-> char_to_bits_map_example,
     rep_color_huffman_rev_table    |-> rep_color_huffman_rev_table_example,
     diff_value_huffman_rev_table   |-> (<<0>> :> 0) @@ (<<1>> :> -1),
     count_huffman_rev_table        |-> (<<>> :> 1),
     representative_palette_indices |-> representative_palette_indices_example,
     palette_size                   |-> 256]

\* characters of the input strings: "X" is in no codebook
InputChars == {"A", "B", "C", "D", "E", "X"}

Strings(n) == UNION {[1..k -> InputChars] : k \in 0..n}

BitStrings(n) == UNION {[1..k -> {0, 1}] : k \in 0..n}

\* image_width, image_height
AllDims == {<<2, 2>>, <<3, 1>>, <<1, 2>>, <<0, 1>>, <<-1, 1>>}

\* the padding of lines 98-100: a run of "A" (000) after the data
AllPads == {0, 1, LongPad}

expected_total_pixels == image_width * image_height

----------------------------------------------------------------------------
(* Hand-built inputs, lines 159-177: run records, Huffman-coded, packed *)

\* "rep(0)="0", diff(1)="01", count(1)="0" => "0010"" (lines 166-169)
CodeOf(table, v) == CHOOSE k \in DOMAIN table : table[k] = v

Range(f) == {f[k] : k \in DOMAIN f}

RECURSIVE EncodeRecords(_, _)
EncodeRecords(records, t) ==
    IF records = <<>> THEN <<>>
    ELSE LET r == Head(records) IN
         CodeOf(t.rep_color_huffman_rev_table, r.rep) \o
         CodeOf(t.diff_value_huffman_rev_table, r.diff) \o
         CodeOf(t.count_huffman_rev_table, r.count) \o
         EncodeRecords(Tail(records), t)

\* "001" -> 'B' (lines 172-176): the characters of a bit string, three bits each
RECURSIVE PackChars(_, _)
PackChars(bits, map) ==
    IF Len(bits) < 3 THEN <<>>
    ELSE <<CHOOSE c \in DOMAIN map : map[c] = SubSeq(bits, 1, 3)>> \o
         PackChars(SubSeq(bits, 4, Len(bits)), map)

RunRecords(t) ==
    [rep   : Range(t.rep_color_huffman_rev_table),
     diff  : Range(t.diff_value_huffman_rev_table),
     count : Range(t.count_huffman_rev_table)]

RecordLists(t, n) == UNION {[1..k -> RunRecords(t)] : k \in 0..n}

----------------------------------------------------------------------------
(* decode_image_data, lines 23-136 *)

\* a bug: a character the codebook lacks is skipped
RECURSIVE ExpandLoopSkip(_, _, _, _)
ExpandLoopSkip(s, map, idx, acc) ==
    IF idx >= Len(s) THEN [ok |-> TRUE, bits |-> acc, index |-> idx]
    ELSE IF s[idx + 1] \notin DOMAIN map
         THEN ExpandLoopSkip(s, map, idx + 1, acc)
         ELSE ExpandLoopSkip(s, map, idx + 1, acc \o map[s[idx + 1]])

\* lines 39-43: the loop over the characters; idx is char_idx, acc the bits so far
RECURSIVE ExpandLoop(_, _, _, _)
ExpandLoop(s, map, idx, acc) ==
    IF idx >= Len(s) THEN [ok |-> TRUE, bits |-> acc, index |-> idx]
    ELSE IF s[idx + 1] \notin DOMAIN map
         THEN [ok |-> FALSE, bits |-> <<>>, index |-> idx]
         ELSE ExpandLoop(s, map, idx + 1, acc \o map[s[idx + 1]])

inputs == <<encoded_string, tables, image_width, image_height, src_records>>
harness == <<scan_table, scan_from, scan_out>>
stage2 == <<current_pos, total_pixels_in_rle_data, rle_encoded_data,
            rep_color_id, diff_value>>
stage34 == <<decoded_value_pairs, final_pixel_palette_indices>>

\* lines 38-44
ExpandBits ==
    /\ pc = "expand"
    /\ LET r == ExpandLoop(encoded_string, tables.char_to_bits_map, 0, <<>>) IN
       IF r.ok
       THEN /\ bit_stream' = r.bits
            /\ pc' = "loop"
            /\ error' = error
       ELSE /\ bit_stream' = bit_stream
            /\ pc' = "failed"
            /\ error' = [kind  |-> "InvalidCharacter",
                         index |-> r.index,
                         char  |-> encoded_string[r.index + 1]]
    /\ UNCHANGED <<inputs, harness, stage2, stage34, warning, result>>

\* line 53, condition false
LoopExit ==
    /\ pc = "loop"
    /\ ~(total_pixels_in_rle_data < expected_total_pixels)
    /\ pc' = "post"
    /\ UNCHANGED <<inputs, harness, stage2, stage34, bit_stream, warning,
                   error, result>>

\* a bug: the loop is left, without a raise, when the stream ends
StreamEndedBreaks ==
    /\ pc = "loop"
    /\ total_pixels_in_rle_data < expected_total_pixels
    /\ current_pos >= Len(bit_stream)
    /\ pc' = "post"
    /\ UNCHANGED <<inputs, harness, stage2, stage34, bit_stream, warning,
                   error, result>>

\* lines 54-62
StreamEnded ==
    /\ pc = "loop"
    /\ total_pixels_in_rle_data < expected_total_pixels
    /\ current_pos >= Len(bit_stream)
    /\ IF total_pixels_in_rle_data < expected_total_pixels
       THEN /\ pc' = "failed"
            /\ error' = [kind        |-> "PrematureEnd",
                         expected    |-> expected_total_pixels,
                         accumulated |-> total_pixels_in_rle_data,
                         processed   |-> current_pos,
                         length      |-> Len(bit_stream)]
       ELSE /\ pc' = "post"
            /\ error' = error
    /\ UNCHANGED <<inputs, harness, stage2, stage34, bit_stream, warning, result>>

\* lines 65-67
DecodeRep ==
    /\ pc = "loop"
    /\ total_pixels_in_rle_data < expected_total_pixels
    /\ current_pos < Len(bit_stream)
    /\ LET r == decode_huffman_stream_item(bit_stream, current_pos,
                    tables.rep_color_huffman_rev_table, "representative color ID") IN
       IF r.ok
       THEN /\ rep_color_id' = r.value
            /\ current_pos' = r.pos
            /\ pc' = "diff"
            /\ error' = error
       ELSE /\ pc' = "failed"
            /\ error' = r.error
            /\ UNCHANGED <<rep_color_id, current_pos>>
    /\ UNCHANGED <<inputs, harness, stage34, bit_stream, warning, result,
                   total_pixels_in_rle_data, rle_encoded_data, diff_value>>

\* lines 70-72
DecodeDiff ==
    /\ pc = "diff"
    /\ LET r == decode_huffman_stream_item(bit_stream, current_pos,
                    tables.diff_value_huffman_rev_table, "difference value") IN
       IF r.ok
       THEN /\ diff_value' = r.value
            /\ current_pos' = r.pos
            /\ pc' = "count"
            /\ error' = error
       ELSE /\ pc' = "failed"
            /\ error' = r.error
            /\ UNCHANGED <<diff_value, current_pos>>
    /\ UNCHANGED <<inputs, harness, stage34, bit_stream, warning, result,
                   total_pixels_in_rle_data, rle_encoded_data, rep_color_id>>

\* lines 75-82; every table value of the model is an int, so isinstance holds
DecodeCount ==
    /\ pc = "count"
    /\ LET r == decode_huffman_stream_item(bit_stream, current_pos,
                    tables.count_huffman_rev_table, "RLE count") IN
       IF ~r.ok
       THEN /\ pc' = "failed"
            /\ error' = r.error
            /\ UNCHANGED <<current_pos, rle_encoded_data, total_pixels_in_rle_data>>
       ELSE /\ current_pos' = r.pos
            /\ IF r.value <= 0
               THEN /\ pc' = "failed"
                    /\ error' = [kind |-> "InvalidRunCount", count |-> r.value]
                    /\ UNCHANGED <<rle_encoded_data, total_pixels_in_rle_data>>
               ELSE /\ rle_encoded_data' = Append(rle_encoded_data,
                            [rep |-> rep_color_id, diff |-> diff_value,
                             count |-> r.value])
                    /\ total_pixels_in_rle_data' = total_pixels_in_rle_data + r.value
                    /\ pc' = "loop"
                    /\ error' = error
    /\ UNCHANGED <<inputs, harness, stage34, bit_stream, warning, result,
                   rep_color_id, diff_value>>

\* a bug: leftover bits are an error
PostLoopStrict ==
    /\ pc = "post"
    /\ IF total_pixels_in_rle_data > expected_total_pixels
       THEN /\ pc' = "failed"
            /\ error' = [kind        |-> "Overrun",
                         expected    |-> expected_total_pixels,
                         accumulated |-> total_pixels_in_rle_data]
       ELSE IF current_pos # Len(bit_stream)
       THEN /\ pc' = "failed"
            /\ error' = [kind      |-> "TrailingBits",
                         remaining |-> Len(bit_stream) - current_pos]
       ELSE /\ pc' = "rle"
            /\ error' = error
    /\ UNCHANGED <<inputs, harness, stage2, stage34, bit_stream, warning, result>>

\* a bug: the overrun check of lines 84-87 is missing
PostLoopNoOverrun ==
    /\ pc = "post"
    /\ IF /\ total_pixels_in_rle_data < expected_total_pixels
          /\ current_pos = Len(bit_stream)
       THEN /\ pc' = "failed"
            /\ error' = [kind        |-> "ExhaustedUnderrun",
                         expected    |-> expected_total_pixels,
                         accumulated |-> total_pixels_in_rle_data]
            /\ warning' = warning
       ELSE /\ pc' = "rle"
            /\ error' = error
            /\ warning' =
                 IF current_pos < Len(bit_stream)
                 THEN [kind      |-> "trailing",
                       remaining |-> Len(bit_stream) - current_pos,
                       preview   |-> Slice(Slice(bit_stream, current_pos,
                                                 Len(bit_stream)), 0, PreviewLen)]
                 ELSE warning
    /\ UNCHANGED <<inputs, harness, stage2, stage34, bit_stream, result>>

\* lines 84-102: the two post-loop checks and the trailing-bits diagnostic
PostLoop ==
    /\ pc = "post"
    /\ IF total_pixels_in_rle_data > expected_total_pixels
       THEN /\ pc' = "failed"
            /\ error' = [kind        |-> "Overrun",
                         expected    |-> expected_total_pixels,
                         accumulated |-> total_pixels_in_rle_data]
            /\ warning' = warning
       ELSE IF /\ total_pixels_in_rle_data < expected_total_pixels
               /\ current_pos = Len(bit_stream)
       THEN /\ pc' = "failed"
            /\ error' = [kind        |-> "ExhaustedUnderrun",
                         expected    |-> expected_total_pixels,
                         accumulated |-> total_pixels_in_rle_data]
            /\ warning' = warning
       ELSE /\ pc' = "rle"
            /\ error' = error
            /\ warning' =
                 IF current_pos < Len(bit_stream)
                 THEN LET remaining_bits ==
                              Slice(bit_stream, current_pos, Len(bit_stream)) IN
                      [kind      |-> "trailing",
                       remaining |-> Len(remaining_bits),
                       preview   |-> Slice(remaining_bits, 0, PreviewLen)]
                 ELSE warning
    /\ UNCHANGED <<inputs, harness, stage2, stage34, bit_stream, result>>

\* a bug: each run is expanded to one pair, whatever its count
RECURSIVE RleExpandOnce(_)
RleExpandOnce(rle) ==
    IF rle = <<>> THEN <<>>
    ELSE <<[rep |-> Head(rle).rep, diff |-> Head(rle).diff]>>
         \o RleExpandOnce(Tail(rle))

\* lines 108-109
RECURSIVE RleExpand(_)
RleExpand(rle) ==
    IF rle = <<>> THEN <<>>
    ELSE Repeat([rep |-> Head(rle).rep, diff |-> Head(rle).diff], Head(rle).count)
         \o RleExpand(Tail(rle))

\* lines 105-116
RleDecode ==
    /\ pc = "rle"
    /\ decoded_value_pairs' = RleExpand(rle_encoded_data)
    /\ IF Len(decoded_value_pairs') # expected_total_pixels
       THEN /\ pc' = "failed"
            /\ error' = [kind     |-> "InternalRleMismatch",
                         decoded  |-> Len(decoded_value_pairs'),
                         expected |-> expected_total_pixels]
       ELSE /\ pc' = "pixels"
            /\ error' = error
    /\ UNCHANGED <<inputs, harness, stage2, bit_stream, warning, result,
                   final_pixel_palette_indices>>

\* a bug: only the upper bound is checked, so that -1 indexes from the end
ValidRepIdUpperOnly(id, indices) == id < Len(indices)

\* line 121
ValidRepId(id, indices) == 0 <= id /\ id < Len(indices)

\* lines 127-132
PixelIndex(id, diff, indices, size) == PyMod(PyIndex(indices, id) + diff, size)

\* lines 120-134: one iteration of the loop over decoded_value_pairs
ReconstructPixel ==
    /\ pc = "pixels"
    /\ Len(final_pixel_palette_indices) < Len(decoded_value_pairs)
    /\ LET pair == decoded_value_pairs[Len(final_pixel_palette_indices) + 1] IN
       IF ~ValidRepId(pair.rep, tables.representative_palette_indices)
       THEN /\ pc' = "failed"
            /\ error' = [kind |-> "InvalidRepId", id |-> pair.rep,
                         size |-> Len(tables.representative_palette_indices)]
            /\ UNCHANGED final_pixel_palette_indices
       ELSE IF tables.palette_size = 0
       THEN /\ pc' = "failed"
            /\ error' = [kind |-> "ZeroDivisionError"]
            /\ UNCHANGED final_pixel_palette_indices
       ELSE /\ final_pixel_palette_indices' =
                   Append(final_pixel_palette_indices,
                          PixelIndex(pair.rep, pair.diff,
                                     tables.representative_palette_indices,
                                     tables.palette_size))
            /\ UNCHANGED <<pc, error>>
    /\ UNCHANGED <<inputs, harness, stage2, bit_stream, warning, result,
                   decoded_value_pairs>>

\* line 136
Return ==
    /\ pc = "pixels"
    /\ Len(final_pixel_palette_indices) = Len(decoded_value_pairs)
    /\ pc' = "done"
    /\ result' = [kind |-> "list", list |-> final_pixel_palette_indices]
    /\ UNCHANGED <<inputs, harness, stage2, stage34, bit_stream, warning, error>>

----------------------------------------------------------------------------
(* Specification of decode_image_data *)

NoWarning == [kind |-> "none"]
NoRecords == [built |-> FALSE, records |-> <<>>]
NoScan == [ok |-> FALSE, value |-> 0, pos |-> 0, error |-> NoError]

\* the locals before the first assignment, and the idle scanner harness
Locals ==
    /\ pc = "expand"
    /\ bit_stream = <<>>
    /\ current_pos = 0
    /\ total_pixels_in_rle_data = 0
    /\ rle_encoded_data = <<>>
    /\ rep_color_id = 0
    /\ diff_value = 0
    /\ warning = NoWarning
    /\ decoded_value_pairs = <<>>
    /\ final_pixel_palette_indices = <<>>
    /\ error = NoError
    /\ result = NoValue
    /\ scan_table = <<>>
    /\ scan_from = -1
    /\ scan_out = NoScan

\* arbitrary input strings, with and without padding
InitStrings ==
    \E t \in {ExampleTables, HostileTables}, body \in Strings(MaxStrLen),
       pad \in AllPads, d \in AllDims :
        /\ t = HostileTables => pad = 0
        /\ encoded_string = body \o Repeat("A", pad)
        /\ tables = t
        /\ image_width = d[1]
        /\ image_height = d[2]
        /\ src_records = NoRecords

\* hand-built inputs: the encoding of a list of run records, with and without padding
InitBuilt ==
    \E t \in {ExampleTables, ZeroPaletteTables, NegativePaletteTables,
              EmptyCodeTables},
       pad \in AllPads, d \in AllDims :
        \E records \in RecordLists(t, MaxRecords) :
            LET bits == EncodeRecords(records, t) IN
            /\ t # ExampleTables => pad = 0 /\ d \in {<<2, 2>>, <<3, 1>>}
            /\ Len(bits) % 3 = 0
            /\ encoded_string = PackChars(bits, t.char_to_bits_map) \o Repeat("A", pad)
            /\ tables = t
            /\ image_width = d[1]
            /\ image_height = d[2]
            /\ src_records = [built |-> TRUE, records |-> records]

Init == Locals /\ (InitStrings \/ InitBuilt)

Next ==
    \/ ExpandBits
    \/ LoopExit
    \/ StreamEnded
    \/ DecodeRep
    \/ DecodeDiff
    \/ DecodeCount
    \/ PostLoop
    \/ RleDecode
    \/ ReconstructPixel
    \/ Return

Spec == Init /\ [][Next]_vars

\* the function runs to its return or its raise: no step is ever withheld
FairSpec == Spec /\ WF_vars(Next)

----------------------------------------------------------------------------
(* Specification of decode_huffman_stream_item called on its own, repeatedly, *)
(* each call starting where the last one ended                                *)

ScanTables ==
    {rep_color_huffman_rev_table_example,
     diff_value_huffman_rev_table_example,
     HostileTables.rep_color_huffman_rev_table,
     HostileTables.diff_value_huffman_rev_table,
     HostileTables.count_huffman_rev_table,
     EmptyCodeTables.count_huffman_rev_table}

InitScan ==
    /\ pc = "scan"
    /\ bit_stream \in BitStrings(MaxScanBits)
    /\ current_pos \in 0..(Len(bit_stream) + 1)
    /\ scan_table \in ScanTables
    /\ scan_from = -1
    /\ scan_out = NoScan
    /\ encoded_string = <<>>
    /\ tables = ExampleTables
    /\ image_width = 0
    /\ image_height = 0
    /\ src_records = NoRecords
    /\ total_pixels_in_rle_data = 0
    /\ rle_encoded_data = <<>>
    /\ rep_color_id = 0
    /\ diff_value = 0
    /\ warning = NoWarning
    /\ decoded_value_pairs = <<>>
    /\ final_pixel_palette_indices = <<>>
    /\ error = NoError
    /\ result = NoValue

ScanItem ==
    /\ pc = "scan"
    /\ LET r == decode_huffman_stream_item(bit_stream, current_pos, scan_table, "item") IN
       /\ scan_from' = current_pos
       /\ scan_out' = r
       /\ current_pos' = r.pos
       /\ pc' = IF r.ok THEN "scan" ELSE "scan_failed"
    /\ UNCHANGED <<inputs, bit_stream, scan_table, total_pixels_in_rle_data,
                   rle_encoded_data, rep_color_id, diff_value, warning, stage34,
                   error, result>>

NextScan == ScanItem

SpecScan == InitScan /\ [][NextScan]_vars

----------------------------------------------------------------------------
(* decode_image_data from line 46 on as a function of the bit stream: the   *)
(* same statements, run to the return or the raise                          *)

\* the while loop of lines 53-82
RECURSIVE AccumulateRuns(_, _, _, _, _, _)
AccumulateRuns(bits, t, expected, pos, total, rle) ==
    IF ~(total < expected)
    THEN [ok |-> TRUE, pos |-> pos, total |-> total, rle |-> rle, errkind |-> "none"]
    ELSE IF pos >= Len(bits)
    THEN [ok |-> FALSE, pos |-> pos, total |-> total, rle |-> rle,
          errkind |-> "PrematureEnd"]
    ELSE
      LET r1 == decode_huffman_stream_item(bits, pos,
                    t.rep_color_huffman_rev_table, "representative color ID")
          r2 == decode_huffman_stream_item(bits, r1.pos,
                    t.diff_value_huffman_rev_table, "difference value")
          r3 == decode_huffman_stream_item(bits, r2.pos,
                    t.count_huffman_rev_table, "RLE count")
      IN
      IF ~r1.ok \/ ~r2.ok \/ ~r3.ok
      THEN [ok |-> FALSE, pos |-> pos, total |-> total, rle |-> rle,
            errkind |-> "HuffmanDecodeError"]
      ELSE IF r3.value <= 0
      THEN [ok |-> FALSE, pos |-> r3.pos, total |-> total, rle |-> rle,
            errkind |-> "InvalidRunCount"]
      ELSE AccumulateRuns(bits, t, expected, r3.pos, total + r3.value,
               Append(rle, [rep |-> r1.value, diff |-> r2.value, count |-> r3.value]))

\* the for loop of lines 120-134
RECURSIVE ReconstructAll(_, _, _)
ReconstructAll(pairs, t, out) ==
    IF pairs = <<>> THEN [kind |-> "list", list |-> out, errkind |-> "none"]
    ELSE IF ~ValidRepId(Head(pairs).rep, t.representative_palette_indices)
    THEN [kind |-> "error", list |-> <<>>, errkind |-> "InvalidRepId"]
    ELSE IF t.palette_size = 0
    THEN [kind |-> "error", list |-> <<>>, errkind |-> "ZeroDivisionError"]
    ELSE ReconstructAll(Tail(pairs), t,
             Append(out, PixelIndex(Head(pairs).rep, Head(pairs).diff,
                                    t.representative_palette_indices,
                                    t.palette_size)))

\* lines 46-136
DecodeBits(bits, t, expected) ==
    LET a == AccumulateRuns(bits, t, expected, 0, 0, <<>>) IN
    IF ~a.ok THEN [kind |-> "error", list |-> <<>>, errkind |-> a.errkind]
    ELSE IF a.total > expected
    THEN [kind |-> "error", list |-> <<>>, errkind |-> "Overrun"]
    ELSE IF a.total < expected /\ a.pos = Len(bits)
    THEN [kind |-> "error", list |-> <<>>, errkind |-> "ExhaustedUnderrun"]
    ELSE IF Len(RleExpand(a.rle)) # expected
    THEN [kind |-> "error", list |-> <<>>, errkind |-> "InternalRleMismatch"]
    ELSE ReconstructAll(RleExpand(a.rle), t, <<>>)

----------------------------------------------------------------------------
(* Vocabulary of the properties *)

Terminated == pc \in {"done", "failed"}

\* the post-loop checks of lines 84-93 were passed
PastPostLoop ==
    \/ pc \in {"rle", "pixels", "done"}
    \/ pc = "failed" /\ error.kind \in {"InternalRleMismatch", "InvalidRepId",
                                         "ZeroDivisionError"}

\* id is an index of the representative table
InTable(id, indices) == id \in 0..(Len(indices) - 1)

RECURSIVE SumCounts(_)
SumCounts(rle) == IF rle = <<>> THEN 0 ELSE Head(rle).count + SumCounts(Tail(rle))

\* 0-based indices of the characters of s that the codebook lacks
UnmappedAt(s, map) == {i \in 0..(Len(s) - 1) : s[i + 1] \notin DOMAIN map}

\* lengths n >= 1 such that the n bits of stream from pos on are a key of table
MatchLens(stream, pos, table) ==
    {n \in 1..(Len(stream) - pos) : SubSeq(stream, pos + 1, pos + n) \in DOMAIN table}

----------------------------------------------------------------------------
(* C5: if a character of the input string is absent from the codebook, the  *)
(* decode fails with the invalid-character error carrying the 0-based index *)
(* of the first such character, wherever it stands and whatever else the    *)
(* input holds; it fails before any Huffman decoding (the cursor never      *)
(* moves, no run is decoded, no bit stream is built) and returns no list.   *)
C5_InvalidCharacter ==
    UnmappedAt(encoded_string, tables.char_to_bits_map) # {} =>
        /\ pc \in {"expand", "failed"}
        /\ pc = "failed" =>
              /\ error.kind = "InvalidCharacter"
              /\ error.index = Min(UnmappedAt(encoded_string, tables.char_to_bits_map))
              /\ error.char = encoded_string[error.index + 1]
        /\ result = NoValue
        /\ bit_stream = <<>>
        /\ current_pos = 0
        /\ rle_encoded_data = <<>>

\* "AEX", 1x2: the bits of "AE" already hold a run of two pixels, "X" comes after
C5_Witness ==
    /\ pc = "failed"
    /\ error.kind = "InvalidCharacter"
    /\ error.index = 2
    /\ encoded_string = <<"A", "E", "X">>
    /\ tables = ExampleTables
    /\ image_width = 1 /\ image_height = 2

(* C6: a call of decode_huffman_stream_item at cursor c returns             *)
(* (table[p], c + len(p)) for the shortest non-empty prefix p of the stream *)
(* from c on that is a key of the table, prefix-free or not, and fails with *)
(* the Huffman decode error reporting c exactly when there is no such       *)
(* prefix; {"0":0,"1":1} on "01" gives (0, 1) at 0 and then (1, 2).         *)
C6_ShortestPrefix ==
    scan_from >= 0 =>
        LET lens == MatchLens(bit_stream, scan_from, scan_table) IN
        /\ IF lens = {}
           THEN /\ ~scan_out.ok
                /\ scan_out.error.kind = "HuffmanDecodeError"
                /\ scan_out.error.position = scan_from
           ELSE /\ scan_out.ok
                /\ scan_out.value =
                     scan_table[SubSeq(bit_stream, scan_from + 1, scan_from + Min(lens))]
                /\ scan_out.pos = scan_from + Min(lens)
        /\ (/\ bit_stream = <<0, 1>>
            /\ scan_table = rep_color_huffman_rev_table_example) =>
               /\ scan_from = 0 => scan_out.ok /\ scan_out.value = 0 /\ scan_out.pos = 1
               /\ scan_from = 1 => scan_out.ok /\ scan_out.value = 1 /\ scan_out.pos = 2

\* the second call on "01"
C6_Witness ==
    /\ bit_stream = <<0, 1>>
    /\ scan_table = rep_color_huffman_rev_table_example
    /\ scan_from = 1
    /\ scan_out.ok /\ scan_out.value = 1 /\ scan_out.pos = 2

(* C9: no run raises the "bit stream fully consumed" underrun error nor the *)
(* internal RLE mismatch error: the loop is left only with accumulated >=   *)
(* expected, the overrun check leaves only accumulated = expected, and the  *)
(* expanded pair list has exactly expected entries.                         *)
C9_DefensiveUnreachable ==
    /\ error.kind \notin {"ExhaustedUnderrun", "InternalRleMismatch"}
    /\ pc = "post" => total_pixels_in_rle_data >= expected_total_pixels
    /\ PastPostLoop => total_pixels_in_rle_data = expected_total_pixels
    /\ pc \in {"pixels", "done"} => Len(decoded_value_pairs) = expected_total_pixels

\* both checks were run and passed with the stream exactly consumed
C9_Witness ==
    /\ pc = "pixels"
    /\ current_pos = Len(bit_stream)
    /\ Len(rle_encoded_data) >= 2
    /\ total_pixels_in_rle_data = expected_total_pixels

(* C2: a returned list (palette_size > 0, width*height >= 0) has exactly     *)
(* width*height elements, each in [0, palette_size), also when base plus    *)
(* difference is negative: base 100, difference -1, size 256 gives 99, and  *)
(* base 10, difference -15, size 16 gives 11.                               *)
C2_LengthAndRange ==
    /\ (pc = "done" /\ tables.palette_size > 0 /\ expected_total_pixels >= 0) =>
          /\ Len(result.list) = expected_total_pixels
          /\ \A k \in 1..Len(result.list) :
                 result.list[k] >= 0 /\ result.list[k] < tables.palette_size
    /\ \A k \in 1..Len(final_pixel_palette_indices) :
          LET pair == decoded_value_pairs[k]
              base == tables.representative_palette_indices[pair.rep + 1]
          IN
          /\ (base = 100 /\ pair.diff = -1 /\ tables.palette_size = 256) =>
                 final_pixel_palette_indices[k] = 99
          /\ (base = 10 /\ pair.diff = -15 /\ tables.palette_size = 16) =>
                 final_pixel_palette_indices[k] = 11

\* a list returned with a pixel whose raw sum 10 - 15 is negative
C2_Witness ==
    /\ pc = "done"
    /\ tables = HostileTables
    /\ expected_total_pixels = 2
    /\ \E k \in 1..Len(result.list) :
          decoded_value_pairs[k].diff = -15 /\ result.list[k] = 11

(* C7: triples are decoded only while the accumulated count is below        *)
(* width*height; a last run that makes the count exceed it fails the decode *)
(* with the overrun error (expected, accumulated); so a list is returned    *)
(* only when the counts of the decoded runs sum to exactly width*height,    *)
(* and the list holds every pixel of the last run.  (An input with an       *)
(* unmapped character fails before the accumulator starts.)                 *)
C7_ExactPixelCount ==
    /\ total_pixels_in_rle_data = SumCounts(rle_encoded_data)
    /\ pc \in {"diff", "count"} => total_pixels_in_rle_data < expected_total_pixels
    /\ (/\ Terminated
        /\ error.kind # "InvalidCharacter"
        /\ total_pixels_in_rle_data > expected_total_pixels) =>
          /\ pc = "failed"
          /\ error.kind = "Overrun"
          /\ error.expected = expected_total_pixels
          /\ error.accumulated = total_pixels_in_rle_data
          /\ result = NoValue
    /\ pc = "done" =>
          /\ SumCounts(rle_encoded_data) = expected_total_pixels
          /\ Len(result.list) = SumCounts(rle_encoded_data)

\* the second run overshoots a count that the first one left short
C7_Witness ==
    /\ pc = "failed"
    /\ error.kind = "Overrun"
    /\ Len(rle_encoded_data) = 2
    /\ rle_encoded_data[1].count < expected_total_pixels
    /\ error.accumulated = expected_total_pixels + 1

(* C4: when the decoded triples reach exactly width*height pixels with the  *)
(* cursor before the end of the stream, the decode does not fail for the    *)
(* leftover bits and does not read them: its outcome is the outcome for the *)
(* stream cut at the cursor; a diagnostic gives the number of remaining     *)
(* bits and their first 30; it is emitted exactly when the cursor is short  *)
(* of the stream end after the post-loop checks.                            *)
C4_TrailingBits ==
    /\ ~PastPostLoop => warning = NoWarning
    /\ PastPostLoop =>
          (warning.kind = "trailing" <=> current_pos < Len(bit_stream))
    /\ warning.kind = "trailing" =>
          /\ warning.remaining = Len(bit_stream) - current_pos
          /\ Len(warning.preview) = Min({PreviewLen, warning.remaining})
          /\ warning.preview =
                SubSeq(bit_stream, current_pos + 1,
                       current_pos + Len(warning.preview))
    /\ (/\ pc \in {"post", "rle", "pixels"} \/ Terminated
        /\ total_pixels_in_rle_data = expected_total_pixels
        /\ current_pos < Len(bit_stream)) =>
          LET cut == DecodeBits(SubSeq(bit_stream, 1, current_pos), tables,
                                expected_total_pixels) IN
          /\ pc = "done" => cut.kind = "list" /\ result.list = cut.list
          /\ pc = "failed" =>
                /\ cut.kind = "error"
                /\ error.kind = cut.errkind
                /\ error.kind \in {"InvalidRepId", "ZeroDivisionError"}
          /\ Terminated \/ cut.kind = "list" \/
                cut.errkind \in {"InvalidRepId", "ZeroDivisionError"}

\* a list returned with more than 30 bits left over: the preview is cut
C4_Witness ==
    /\ pc = "done"
    /\ Len(result.list) = 4
    /\ warning.kind = "trailing"
    /\ warning.remaining > PreviewLen
    /\ Len(warning.preview) = PreviewLen

(* C8 as claimed: whenever a decoded run record has a representative-colour *)
(* id outside 0 <= id < len(representative_palette_indices), the decode     *)
(* fails with the invalid-representative-color-id error.                    *)
HasBadRepId ==
    \E i \in 1..Len(rle_encoded_data) :
        ~InTable(rle_encoded_data[i].rep, tables.representative_palette_indices)

C8_Original ==
    (Terminated /\ HasBadRepId) =>
        /\ pc = "failed"
        /\ error.kind = "InvalidRepId"
        /\ result = NoValue

(* C8, amended: ids are validated only in the last stage.  If the runs were *)
(* all decoded with counts summing to exactly width*height, palette_size is *)
(* not 0 and some run record has an id outside the table (negative ids      *)
(* included), the decode fails with the invalid-representative-color-id     *)
(* error for the first such pixel and returns no list, not even the pixels  *)
(* before it; when an earlier stage fails, its error is raised instead and  *)
(* again no list is returned; the table is only indexed with checked ids.   *)
C8_RepIdValidated ==
    /\ HasBadRepId => pc # "done" /\ result = NoValue
    /\ (/\ Terminated
        /\ HasBadRepId
        /\ total_pixels_in_rle_data = expected_total_pixels
        /\ tables.palette_size # 0) =>
          /\ pc = "failed"
          /\ error.kind = "InvalidRepId"
          /\ error.id = decoded_value_pairs[Len(final_pixel_palette_indices) + 1].rep
          /\ ~InTable(error.id, tables.representative_palette_indices)
    /\ (Terminated /\ HasBadRepId
        /\ total_pixels_in_rle_data # expected_total_pixels) =>
          /\ pc = "failed"
          /\ error.kind \in {"HuffmanDecodeError", "InvalidRunCount",
                             "PrematureEnd", "Overrun"}
    /\ \A k \in 1..Len(final_pixel_palette_indices) :
          InTable(decoded_value_pairs[k].rep, tables.representative_palette_indices)

\* a negative id rejected after one pixel was already reconstructed
C8_Witness ==
    /\ pc = "failed"
    /\ error.kind = "InvalidRepId"
    /\ error.id = -1
    /\ Len(final_pixel_palette_indices) >= 1
    /\ result = NoValue

----------------------------------------------------------------------------
(* Round trip of a hand-built encoding *)

IsPrefix(a, b) == Len(a) <= Len(b) /\ SubSeq(b, 1, Len(a)) = a

PrefixFree(table) ==
    \A a \in DOMAIN table, b \in DOMAIN table : a # b => ~IsPrefix(a, b)

AllTables ==
    {tables.rep_color_huffman_rev_table, tables.diff_value_huffman_rev_table,
     tables.count_huffman_rev_table}

\* the r of the same sign as size, smaller in magnitude, with x - r a multiple of size
ModOf(x, size) ==
    CHOOSE r \in (IF size > 0 THEN 0..(size - 1) ELSE (size + 1)..0) :
        (x - r) % (IF size > 0 THEN size ELSE -size) = 0

RECURSIVE ExpectedPixels(_, _)
ExpectedPixels(records, t) ==
    IF records = <<>> THEN <<>>
    ELSE LET r == Head(records) IN
         [k \in 1..r.count |->
             ModOf(t.representative_palette_indices[r.rep + 1] + r.diff, t.palette_size)]
         \o ExpectedPixels(Tail(records), t)

\* the input string expands to exactly the codes of the records, which have
\* counts >= 1 summing to width*height and valid ids; the tables are prefix-free
RoundTripInput ==
    /\ src_records.built
    /\ encoded_string =
          PackChars(EncodeRecords(src_records.records, tables), tables.char_to_bits_map)
    /\ \A i \in 1..Len(src_records.records) :
          /\ src_records.records[i].count >= 1
          /\ InTable(src_records.records[i].rep, tables.representative_palette_indices)
    /\ SumCounts(src_records.records) = expected_total_pixels
    /\ \A table \in AllTables : PrefixFree(table)

BadeCase ==
    (/\ Terminated
     /\ encoded_string = <<"B", "A", "D", "E">>
     /\ tables = ExampleTables
     /\ image_width = 2 /\ image_height = 2) =>
        pc = "done" /\ result.list = <<11, 10, 10, 99>>

(* C1 as claimed: for every such input the decode returns, record by        *)
(* record, count copies of (representative_palette_indices[repId] + diff)   *)
(* mod palette_size; "BADE", 2x2, example tables gives [11, 10, 10, 99].    *)
C1_Original ==
    /\ RoundTripInput =>
          /\ pc # "failed"
          /\ pc = "done" => result.list = ExpectedPixels(src_records.records, tables)
    /\ BadeCase

(* C1, amended: the same, for tables none of which has the empty string as  *)
(* a key and for a palette size other than 0.                               *)
C1_RoundTrip ==
    /\ (/\ RoundTripInput
        /\ \A table \in AllTables : <<>> \notin DOMAIN table
        /\ tables.palette_size # 0) =>
          /\ pc # "failed"
          /\ pc = "done" => result.list = ExpectedPixels(src_records.records, tables)
    /\ BadeCase

C1_Witness ==
    /\ pc = "done"
    /\ RoundTripInput
    /\ src_records.records = <<[rep |-> 0, diff |-> 1, count |-> 1],
                               [rep |-> 0, diff |-> 0, count |-> 2],
                               [rep |-> 1, diff |-> -1, count |-> 1]>>
    /\ encoded_string = <<"B", "A", "D", "E">>
    /\ tables = ExampleTables
    /\ result.list = <<11, 10, 10, 99>>

----------------------------------------------------------------------------
(* C3, on the input of Test Case 2 (lines 198-222): "BACA" with the example *)
(* tables and a 2x2 image fails with the premature-end error naming the     *)
(* expected and the accumulated pixel counts.                               *)
C3_TestCase2 ==
    (/\ Terminated
     /\ encoded_string = <<"B", "A", "C", "A">>
     /\ tables = ExampleTables
     /\ image_width = 2 /\ image_height = 2) =>
        /\ pc = "failed"
        /\ error.kind = "PrematureEnd"
        /\ error.expected = 4
        /\ error.accumulated = total_pixels_in_rle_data
        /\ error.accumulated < 4

(* C3, on a stream that ends inside a triple: the cursor is at the end of   *)
(* the stream with a difference or a count still to decode and too few      *)
(* pixels accumulated; the claim asks for the premature-end error there.    *)
C3_EndsInsideTriple ==
    (/\ pc = "failed"
     /\ error.kind # "InvalidCharacter"
     /\ current_pos = Len(bit_stream)
     /\ total_pixels_in_rle_data < expected_total_pixels
     /\ SumCounts(rle_encoded_data) = total_pixels_in_rle_data
     /\ error.kind # "InvalidRunCount") =>
        error.kind = "PrematureEnd"

----------------------------------------------------------------------------
(* C10: every run reaches the return or a raise.  The cursor never moves    *)
(* back and never passes the end of the stream; every successful scanner    *)
(* call advances it by at least one bit, whatever the tables (prefix-free   *)
(* or not, with an empty key or not); so after n completed iterations the   *)
(* cursor is at least at 3n and at least n pixels are accumulated.          *)
CursorForward ==
    /\ current_pos' >= current_pos
    /\ current_pos' <= Len(bit_stream')
    /\ (\/ pc = "loop" /\ pc' = "diff"
        \/ pc = "diff" /\ pc' = "count"
        \/ pc = "count" /\ pc' = "loop"
        \/ pc = "count" /\ pc' = "failed" /\ error'.kind = "InvalidRunCount")
          => current_pos' > current_pos

IterationProgress ==
    pc \in {"loop", "post"} =>
        /\ current_pos >= 3 * Len(rle_encoded_data)
        /\ total_pixels_in_rle_data >= Len(rle_encoded_data)

C10_Termination ==
    /\ <>Terminated
    /\ [][CursorForward]_vars
    /\ []IterationProgress

\* two iterations completed with tables that are not prefix-free and hold an empty key
C10_Witness ==
    /\ pc = "done"
    /\ tables = HostileTables
    /\ Len(rle_encoded_data) >= 2

====
